---- MODULE Spec2Model ----
(***************************************************************************)
(* POS checkout client: Auth Token Store (store/useAuth.ts), HTTP Request  *)
(* Wrapper (libs/api.ts), Cart Store (store/useCart.ts) and the Checkout   *)
(* Page (app/pos/page.tsx).                                                *)
(*                                                                         *)
(* Representation.  A text is a sequence of one-character strings.  A      *)
(* JavaScript number is an integer count of hundredths (1 is 100, 0.01 is  *)
(* 1); NaN is the value NaN below.  The digits that inputs are built from  *)
(* never put a 5 in the third decimal place, so that rounding to two       *)
(* decimals is exact in binary floating point as well.                     *)
(***************************************************************************)
EXTENDS Integers, Sequences, FiniteSets, TLC

(***************************************************************************)
(* Texts and numbers                                                       *)
(***************************************************************************)
DigitChars == <<"0", "1", "2", "3", "4", "5", "6", "7", "8", "9">>

IsDigit(c) == \E i \in 1..10 : DigitChars[i] = c

DigitVal(c) == (CHOOSE i \in 1..10 : DigitChars[i] = c) - 1

IsSpace(c) == c = " "

AllDigits(t) == \A i \in 1..Len(t) : IsDigit(t[i])

RECURSIVE Pow10(_)
Pow10(k) == IF k = 0 THEN 1 ELSE 10 * Pow10(k - 1)

RECURSIVE DigitsValue(_)
DigitsValue(t) ==
    IF t = <<>> THEN 0
    ELSE 10 * DigitsValue(SubSeq(t, 1, Len(t) - 1)) + DigitVal(t[Len(t)])

RECURSIVE TrimStart(_)
TrimStart(t) ==
    IF t # <<>> /\ IsSpace(t[1]) THEN TrimStart(Tail(t)) ELSE t

RECURSIVE TrimEnd(_)
TrimEnd(t) ==
    IF t # <<>> /\ IsSpace(t[Len(t)]) THEN TrimEnd(SubSeq(t, 1, Len(t) - 1)) ELSE t

\* String.prototype.trim
Trim(t) == TrimEnd(TrimStart(t))

\* input.replace(/,/g, "")
StripCommas(t) == SelectSeq(t, LAMBDA c : c # ",")

\* index of the first "." of t, or 0
DotIndex(t) ==
    IF \E i \in 1..Len(t) : t[i] = "."
    THEN CHOOSE i \in 1..Len(t) : t[i] = "." /\ \A j \in 1..(i - 1) : t[j] # "."
    ELSE 0

\* /^\d*(\.\d{0,2})?$/ on u, whose first "." is at d (0: none)
MatchesUnsignedPattern(u, d) ==
    IF d = 0 THEN AllDigits(u)
    ELSE /\ AllDigits(SubSeq(u, 1, d - 1))
         /\ AllDigits(SubSeq(u, d + 1, Len(u)))
         /\ Len(u) - d <= 2

\* /^-?\d*(\.\d{0,2})?$/.test(t)
MatchesMoneyPattern(t) ==
    IF t # <<>> /\ t[1] = "-" THEN MatchesUnsignedPattern(Tail(t), DotIndex(Tail(t)))
    ELSE MatchesUnsignedPattern(t, DotIndex(t))

NaN == [nan |-> TRUE, n |-> 0, d |-> 1]

Rat(n, d) == [nan |-> FALSE, n |-> n, d |-> d]

\* the value of the digits ip before and fp after the decimal point, negated if neg
NumberOfDigits(neg, ip, fp) ==
    IF AllDigits(ip) /\ AllDigits(fp) /\ Len(ip) + Len(fp) > 0
    THEN Rat((IF neg THEN 0 - 1 ELSE 1) * (DigitsValue(ip) * Pow10(Len(fp)) + DigitsValue(fp)),
             Pow10(Len(fp)))
    ELSE NaN

\* the value of the unsigned literal u whose first "." is at d (0: none)
NumberOfUnsigned(neg, u, d) ==
    IF d = 0 THEN NumberOfDigits(neg, u, <<>>)
    ELSE NumberOfDigits(neg, SubSeq(u, 1, d - 1), SubSeq(u, d + 1, Len(u)))

\* the value of the literal s, which has no space around it
NumberOfTrimmed(s) ==
    IF s = <<>> THEN Rat(0, 1)
    ELSE IF s[1] = "-" THEN NumberOfUnsigned(TRUE, Tail(s), DotIndex(Tail(s)))
    ELSE NumberOfUnsigned(FALSE, s, DotIndex(s))

\* Number(text) on a text over digits, ".", "-", ",", " " and letters that
\* start no numeric literal: the exact value n/d, or NaN
NumberOfText(t) == NumberOfTrimmed(Trim(t))

\* Math.round(x * 100) for x = n/d: the nearest integer, a half going up
\* (d is a power of ten; the two forms are equal and keep the products small)
RoundHundredths(n, d) ==
    IF d % 100 = 0
    THEN (2 * n + (d \div 100)) \div (2 * (d \div 100))
    ELSE (2 * 100 * n + d) \div (2 * d)

NoAmount == [some |-> FALSE, cents |-> 0]

Amount(c) == [some |-> TRUE, cents |-> c]

\* Number.isFinite(numeric) ? Math.round(numeric * 100) / 100 : null
RoundedIfFinite(numeric) ==
    IF numeric.nan THEN NoAmount ELSE Amount(RoundHundredths(numeric.n, numeric.d))

\* parseMoney from the test of the pattern on: both branches coerce and round
ParseNormalized(normalized) ==
    IF \/ ~MatchesMoneyPattern(normalized)
       \/ normalized = <<"-">>
       \/ normalized = <<".">>
       \/ normalized = <<"-", ".">>
    THEN RoundedIfFinite(NumberOfText(normalized))
    ELSE RoundedIfFinite(NumberOfText(normalized))

\* parseMoney from the trimmed text on
ParseTrimmed(trimmed) ==
    IF trimmed = <<>> THEN NoAmount ELSE ParseNormalized(StripCommas(trimmed))

\* parseMoney(input): the amount in hundredths, or NoAmount for null
parseMoney(input) == ParseTrimmed(Trim(input))

RECURSIVE DigitsOf(_)
DigitsOf(n) ==
    IF n < 10 THEN <<DigitChars[n + 1]>>
    ELSE Append(DigitsOf(n \div 10), DigitChars[(n % 10) + 1])

\* Number.prototype.toFixed(2) of a value given in hundredths
Fixed2OfMagnitude(m) ==
    DigitsOf(m \div 100) \o <<".", DigitChars[((m \div 10) % 10) + 1], DigitChars[(m % 10) + 1]>>

toFixed2(c) == IF c < 0 THEN <<"-">> \o Fixed2OfMagnitude(0 - c) ELSE Fixed2OfMagnitude(c)

(***************************************************************************)
(* JavaScript values held by stored cart records                           *)
(***************************************************************************)
Undefined == [type |-> "undefined", num |-> 0, text |-> <<>>]

Null == [type |-> "null", num |-> 0, text |-> <<>>]

NotANumber == [type |-> "nan", num |-> 0, text |-> <<>>]

Num(n) == [type |-> "number", num |-> n, text |-> <<>>]

Str(t) == [type |-> "string", num |-> 0, text |-> t]

\* a ?? b
Coalesce(a, b) == IF a.type \in {"undefined", "null"} THEN b ELSE a

\* the number n/d in hundredths (texts have at most two decimals)
NumOfRat(r) == IF r.nan THEN NotANumber ELSE Num((100 * r.n) \div r.d)

\* Number(v)
ToNumber(v) ==
    CASE v.type = "number" -> v
      [] v.type = "null" -> Num(0)
      [] v.type = "string" -> NumOfRat(NumberOfText(v.text))
      [] OTHER -> NotANumber

IsFiniteNumber(v) == v.type = "number"

\* Number.isInteger
IsIntegerNumber(v) == v.type = "number" /\ v.num % 100 = 0

(***************************************************************************)
(* Cart Store (store/useCart.ts)                                           *)
(***************************************************************************)
RawKeys == {"productId", "product_id", "quantity", "unitPrice", "unit_price", "price",
            "name", "productName", "sku", "productSku", "taxRate", "tax_rate"}

\* a parsed JSON object: every key it does not have reads as undefined
RawObject(f) == [object |-> TRUE, f |-> [k \in RawKeys |-> IF k \in DOMAIN f THEN f[k] ELSE Undefined]]

\* a parsed JSON value that is not an object (a number, a text, null)
RawNonObject == [object |-> FALSE, f |-> [k \in RawKeys |-> Undefined]]

CartItem(productId, name, quantity, unitPrice, sku, taxRate) ==
    [productId |-> productId, name |-> name, quantity |-> quantity,
     unitPrice |-> unitPrice, sku |-> sku, taxRate |-> taxRate]

NoItem == [some |-> FALSE, item |-> CartItem(0, <<>>, 0, 0, Undefined, Undefined)]

\* taxRateRaw !== undefined && Number.isFinite(Number(taxRateRaw)) ? Number(taxRateRaw) : undefined
TaxRateOf(taxRateRaw, asNumber) ==
    IF taxRateRaw.type # "undefined" /\ IsFiniteNumber(asNumber) THEN asNumber ELSE Undefined

\* a mutant of the first check: a productId of zero passes
SanitizeFields_allowsZeroId(productId, quantity, unitPrice, nameValue, skuValue, taxRate) ==
    IF ~IsIntegerNumber(productId) \/ productId.num < 0 THEN NoItem
    ELSE IF ~IsFiniteNumber(quantity) \/ quantity.num <= 0 THEN NoItem
    ELSE IF ~IsFiniteNumber(unitPrice) THEN NoItem
    ELSE [some |-> TRUE,
          item |-> CartItem(productId.num,
                            IF nameValue.type = "string" THEN nameValue.text ELSE <<>>,
                            quantity.num,
                            unitPrice.num,
                            IF skuValue.type = "string" THEN skuValue ELSE Undefined,
                            taxRate)]

\* sanitizeCartItem from its three checks on, given the values it extracted
SanitizeFields(productId, quantity, unitPrice, nameValue, skuValue, taxRate) ==
    IF ~IsIntegerNumber(productId) \/ productId.num <= 0 THEN NoItem
    ELSE IF ~IsFiniteNumber(quantity) \/ quantity.num <= 0 THEN NoItem
    ELSE IF ~IsFiniteNumber(unitPrice) THEN NoItem
    ELSE [some |-> TRUE,
          item |-> CartItem(productId.num,
                            IF nameValue.type = "string" THEN nameValue.text ELSE <<>>,
                            quantity.num,
                            unitPrice.num,
                            IF skuValue.type = "string" THEN skuValue ELSE Undefined,
                            taxRate)]

\* sanitizeCartItem on the fields of a record
SanitizeRecord(raw) ==
    SanitizeFields(ToNumber(Coalesce(raw["productId"], raw["product_id"])),
                   ToNumber(raw["quantity"]),
                   ToNumber(Coalesce(Coalesce(raw["unitPrice"], raw["unit_price"]), raw["price"])),
                   Coalesce(raw["name"], raw["productName"]),
                   Coalesce(raw["sku"], raw["productSku"]),
                   TaxRateOf(Coalesce(raw["taxRate"], raw["tax_rate"]),
                             ToNumber(Coalesce(raw["taxRate"], raw["tax_rate"]))))

\* sanitizeCartItem(input): the sanitized item, or NoItem for null
sanitizeCartItem(input) == IF ~input.object THEN NoItem ELSE SanitizeRecord(input.f)

\* the value localStorage holds under CART_STORAGE_KEY, by what JSON.parse makes of it
NoEntry == [kind |-> "absent", elems |-> <<>>]

EmptyText == [kind |-> "empty", elems |-> <<>>]

InvalidJson == [kind |-> "invalid", elems |-> <<>>]

NotArrayJson == [kind |-> "notarray", elems |-> <<>>]

ArrayJson(elems) == [kind |-> "array", elems |-> elems]

\* the object JSON.parse(JSON.stringify(item)) of one item: undefined fields are left out
StringifyItem(item) ==
    RawObject([productId |-> Num(item.productId), name |-> Str(item.name),
               quantity |-> Num(item.quantity), unitPrice |-> Num(item.unitPrice),
               sku |-> item.sku, taxRate |-> item.taxRate])

\* JSON.stringify(items)
StringifyItems(items) == ArrayJson([i \in 1..Len(items) |-> StringifyItem(items[i])])

\* a mutant of the filter: a rejected element stays, as an empty item
KeepItem_keepsRejected(r) == <<r.item>>

\* .filter(Boolean) on one result of sanitizeCartItem
KeepItem(r) == IF r.some THEN <<r.item>> ELSE <<>>

\* parsed.map(sanitizeCartItem).filter(Boolean)
RECURSIVE SanitizeAll(_)
SanitizeAll(elems) ==
    IF elems = <<>> THEN <<>>
    ELSE KeepItem(sanitizeCartItem(Head(elems))) \o SanitizeAll(Tail(elems))

\* readCartItems() on a stored value
readCartItems(stored) ==
    IF stored.kind = "array" THEN SanitizeAll(stored.elems) ELSE <<>>

\* roundCurrency(n / d): the value in hundredths
roundCurrency(n, d) == RoundHundredths(n, d)

\* roundCurrency(item.unitPrice * item.quantity)
LineSubtotal(item) == roundCurrency(item.unitPrice * item.quantity, 10000)

\* roundCurrency(lineSubtotal * ((item.taxRate ?? 0) / 100))
LineTax(item, lineSubtotal) ==
    roundCurrency(lineSubtotal * (IF item.taxRate.type = "number" THEN item.taxRate.num ELSE 0),
                  1000000)

\* a mutant of the accumulator: the total leaves the line's tax out
AddLine_totalWithoutTax(accumulator, lineSubtotal, lineTax) ==
    [subtotal |-> roundCurrency(accumulator.subtotal + lineSubtotal, 100),
     tax |-> roundCurrency(accumulator.tax + lineTax, 100),
     total |-> roundCurrency(accumulator.total + lineSubtotal, 100)]

\* the accumulator of the reduce after one more line
AddLine(accumulator, lineSubtotal, lineTax) ==
    [subtotal |-> roundCurrency(accumulator.subtotal + lineSubtotal, 100),
     tax |-> roundCurrency(accumulator.tax + lineTax, 100),
     total |-> roundCurrency(accumulator.total + lineSubtotal + lineTax, 100)]

\* the callback of the reduce
ReduceLine(accumulator, item) ==
    AddLine(accumulator, LineSubtotal(item), LineTax(item, LineSubtotal(item)))

RECURSIVE calculateCartTotals(_)
calculateCartTotals(items) ==
    IF items = <<>> THEN [subtotal |-> 0, tax |-> 0, total |-> 0]
    ELSE ReduceLine(calculateCartTotals(SubSeq(items, 1, Len(items) - 1)), items[Len(items)])

(***************************************************************************)
(* JSON values of HTTP response bodies, and the page's messages            *)
(***************************************************************************)
JUndefined == [type |-> "undefined", str |-> ""]

JNull == [type |-> "null", str |-> ""]

JStr(s) == [type |-> "string", str |-> s]

\* a value that is not an object: detail and order_no read as undefined
JPrim(p) == [type |-> p.type, str |-> p.str, detail |-> JUndefined, order_no |-> JUndefined]

JObject(detail, order_no) == [type |-> "object", str |-> "", detail |-> detail, order_no |-> order_no]

\* a ?? b on these values
JCoalesce(a, b) == IF a.type \in {"undefined", "null"} THEN b ELSE a

TextEmpty == ""

TextNotJson == "Internal Server Error"

TextDetail == "{\"detail\":\"insufficient stock\"}"

TextDetailNull == "{\"detail\":null}"

TextNoDetail == "{}"

TextOrder == "{\"order_no\":\"X1\",\"total\":\"1100.00\",\"paid_amount\":\"1100.00\",\"change_amount\":\"0.00\"}"

ResponseTexts == {TextEmpty, TextNotJson, TextDetail, TextDetailNull, TextNoDetail, TextOrder}

\* JSON.parse(text) on the response texts: whether it throws, and its value
JSONParse(text) ==
    CASE text = TextDetail -> [throws |-> FALSE, value |-> JObject(JStr("insufficient stock"), JUndefined)]
      [] text = TextDetailNull -> [throws |-> FALSE, value |-> JObject(JNull, JUndefined)]
      [] text = TextNoDetail -> [throws |-> FALSE, value |-> JObject(JUndefined, JUndefined)]
      [] text = TextOrder -> [throws |-> FALSE, value |-> JObject(JUndefined, JStr("X1"))]
      [] OTHER -> [throws |-> TRUE, value |-> JPrim(JUndefined)]

MsgCartEmpty == "cart is empty"

MsgNoAuth == "missing authentication, please log in again"

MsgEnterAmount == "enter a received amount"

MsgAmountNotPositive == "received amount must be greater than zero"

MsgCheckoutFailed == "checkout failed"

MsgUnexpected == "unexpected error occurred"

paymentMethodOptions == <<"cash", "card", "qr", "other">>

PaymentMethod == {paymentMethodOptions[i] : i \in 1..Len(paymentMethodOptions)}

(***************************************************************************)
(* State                                                                   *)
(***************************************************************************)
VARIABLES
    tokenEntry,     \* localStorage["pos.accessToken"]: [present, value]
    cartEntry,      \* localStorage["pos.cart"]
    storageEvents,  \* native storage events queued for this window: their keys
    listeners,      \* callbacks registered with subscribeCart
    received,       \* per callback, the argument of its latest invocation
    calls,          \* per callback, how many times it has been invoked
    mounted,        \* the page's mount effect has run (it is subscribed)
    cartItems, paymentMethod, receivedAmount, memo,
    isSubmitting, errorMessage, orderResult,
    inFlight        \* requests handed to fetch and not yet settled, in issue order

storeVars == <<cartEntry, storageEvents, listeners, received, calls>>

pageVars == <<mounted, cartItems, paymentMethod, receivedAmount, memo,
              isSubmitting, errorMessage, orderResult, inFlight>>

vars == <<tokenEntry, storeVars, pageVars>>

CART_STORAGE_KEY == "pos.cart"

AUTH_STORAGE_KEY == "pos.accessToken"

NoTokenEntry == [present |-> FALSE, value |-> ""]

TokenEntry(t) == [present |-> TRUE, value |-> t]

\* getAccessToken(), and whether its result is truthy
getAccessToken == tokenEntry

\* a mutant of the truthiness test: an absent token passes
HasToken_always(t) == TRUE

HasToken(t) == t.present /\ t.value # ""

(***************************************************************************)
(* Bounds and inputs                                                       *)
(***************************************************************************)
MaxPending == 1     \* storage events queued at once

MaxCalls == 2       \* invocations counted per callback

MaxInFlight == 2    \* requests in flight when the handler is called directly

Callbacks == {"cb1", "cb2"}

ItemA == CartItem(100, <<"A">>, 200, 50000, Undefined, Num(1000))

ItemB == CartItem(200, <<"B">>, 100, 100, Str(<<"s">>), Undefined)

\* quantity 0: an item sanitizeCartItem rejects
ItemZ == CartItem(300, <<"Z">>, 0, 100, Undefined, Undefined)

RawSnake == RawObject([product_id |-> Num(700), quantity |-> Num(200),
                       unit_price |-> Num(350), tax_rate |-> Num(1000)])

RawBadId == RawObject([productId |-> Num(0), quantity |-> Num(100), unitPrice |-> Num(500)])

\* a line whose subtotal (0.084) and tax (0.0064) both need rounding
ItemR == CartItem(400, <<"R">>, 70, 12, Undefined, Num(800))

\* a discount line: a negative unit price, taxed
ItemF == CartItem(500, <<"F">>, 100, 0 - 350, Undefined, Num(1000))

\* a record whose numbers are kept as texts, its price under the third name
RawTexts == RawObject([productId |-> Str(<<"9">>), quantity |-> Str(<<"2">>),
                       price |-> Str(<<"3", ".", "5">>), name |-> Num(100),
                       productSku |-> Str(<<"k">>)])

TokenInputs == {"", "t1"}

(***************************************************************************)
(* Auth Token Store (store/useAuth.ts)                                     *)
(***************************************************************************)
\* clearAccessToken()
ClearAccessToken ==
    /\ tokenEntry' = NoTokenEntry
    /\ UNCHANGED <<storeVars, pageVars>>

\* setAccessToken(token)
SetAccessToken(token) ==
    /\ IF token = "" THEN tokenEntry' = NoTokenEntry ELSE tokenEntry' = TokenEntry(token)
    /\ UNCHANGED <<storeVars, pageVars>>

\* another tab sets or removes the token entry: this window gets a storage event
CrossTabToken(entry) ==
    /\ entry # tokenEntry
    /\ Len(storageEvents) < MaxPending
    /\ tokenEntry' = entry
    /\ storageEvents' = Append(storageEvents, AUTH_STORAGE_KEY)
    /\ UNCHANGED <<cartEntry, listeners, received, calls, pageVars>>

(***************************************************************************)
(* Cart Store operations and the page's auto-fill effect                   *)
(***************************************************************************)
NothingReceived == [got |-> FALSE, items |-> <<>>]

Got(items) == [got |-> TRUE, items |-> items]

\* a mutant of the effect: the payment method is not looked at
AutoFill_anyMethod(cart, method, amount) ==
    IF Len(cart) > 0 /\ amount = <<>>
    THEN toFixed2(calculateCartTotals(cart).total)
    ELSE amount

\* the effect of page.tsx lines 128-132 on the received-amount text
AutoFill(cart, method, amount) ==
    IF method # "cash" /\ Len(cart) > 0 /\ amount = <<>>
    THEN toFixed2(calculateCartTotals(cart).total)
    ELSE amount

\* a mutant of handleCustom: the callback is always given a fresh read
handleCustom_rereads(hasDetail, detail) ==
    LET arg == readCartItems(cartEntry')
    IN /\ received' = [c \in Callbacks |-> IF c \in listeners THEN Got(arg) ELSE received[c]]
       /\ calls' = [c \in Callbacks |-> IF c \in listeners THEN calls[c] + 1 ELSE calls[c]]

\* handleCustom of every registered callback, run by the dispatch of CART_EVENT:
\* callback(detail ?? readCartItems())
handleCustom(hasDetail, detail) ==
    LET arg == IF hasDetail THEN detail ELSE readCartItems(cartEntry')
    IN /\ received' = [c \in Callbacks |-> IF c \in listeners THEN Got(arg) ELSE received[c]]
       /\ calls' = [c \in Callbacks |-> IF c \in listeners THEN calls[c] + 1 ELSE calls[c]]

\* emitCartChange(items): the event always carries items as its detail
emitCartChange(items) == handleCustom(TRUE, items)

\* a mutant of the subscription: the page never takes the delivered items
PageCartAfter_notSubscribed(items) == cartItems

\* the page's cart after a cart event carrying items: setCartItems is subscribed once mounted
PageCartAfter(items) == IF mounted THEN items ELSE cartItems

CallsBelowCap == \A c \in listeners : calls[c] < MaxCalls

\* writeCartItems(items)
writeCartItems(items) ==
    /\ cartEntry' = StringifyItems(items)
    /\ emitCartChange(items)

\* a mutant of clearCartItems: the event is sent but the entry stays
clearCartItems_keepsEntry ==
    /\ cartEntry' = cartEntry
    /\ emitCartChange(<<>>)

\* clearCartItems()
clearCartItems ==
    /\ cartEntry' = NoEntry
    /\ emitCartChange(<<>>)

\* subscribeCart(callback)
SubscribeCart(c) ==
    /\ c \notin listeners
    /\ listeners' = listeners \cup {c}
    /\ UNCHANGED <<tokenEntry, cartEntry, storageEvents, received, calls, pageVars>>

\* the function subscribeCart returned
Unsubscribe(c) ==
    /\ c \in listeners
    /\ listeners' = listeners \ {c}
    /\ UNCHANGED <<tokenEntry, cartEntry, storageEvents, received, calls, pageVars>>

\* another component of this page calls writeCartItems(items)
WriteCartItems(items) ==
    /\ CallsBelowCap
    /\ writeCartItems(items)
    /\ cartItems' = PageCartAfter(items)
    /\ receivedAmount' = AutoFill(cartItems', paymentMethod, receivedAmount)
    /\ UNCHANGED <<tokenEntry, storageEvents, listeners, mounted, paymentMethod, memo,
                   isSubmitting, errorMessage, orderResult, inFlight>>

\* another component of this page calls clearCartItems()
ClearCartItems ==
    /\ CallsBelowCap
    /\ clearCartItems
    /\ cartItems' = PageCartAfter(<<>>)
    /\ receivedAmount' = AutoFill(cartItems', paymentMethod, receivedAmount)
    /\ UNCHANGED <<tokenEntry, storageEvents, listeners, mounted, paymentMethod, memo,
                   isSubmitting, errorMessage, orderResult, inFlight>>

\* another tab sets or removes the cart entry: this window gets a storage event
CrossTabCart(entry) ==
    /\ entry # cartEntry
    /\ Len(storageEvents) < MaxPending
    /\ cartEntry' = entry
    /\ storageEvents' = Append(storageEvents, CART_STORAGE_KEY)
    /\ UNCHANGED <<tokenEntry, listeners, received, calls, pageVars>>

\* the window dispatches the oldest queued storage event: handleStorage
DeliverStorageEvent ==
    /\ storageEvents # <<>>
    /\ storageEvents' = Tail(storageEvents)
    /\ IF Head(storageEvents) = CART_STORAGE_KEY
       THEN /\ CallsBelowCap
            /\ received' = [c \in Callbacks |->
                              IF c \in listeners THEN Got(readCartItems(cartEntry)) ELSE received[c]]
            /\ calls' = [c \in Callbacks |-> IF c \in listeners THEN calls[c] + 1 ELSE calls[c]]
            /\ cartItems' = PageCartAfter(readCartItems(cartEntry))
       ELSE UNCHANGED <<received, calls, cartItems>>
    /\ receivedAmount' = AutoFill(cartItems', paymentMethod, receivedAmount)
    /\ UNCHANGED <<tokenEntry, cartEntry, listeners, mounted, paymentMethod, memo,
                   isSubmitting, errorMessage, orderResult, inFlight>>

(***************************************************************************)
(* HTTP Request Wrapper (libs/api.ts)                                      *)
(***************************************************************************)
NoHeader == [present |-> FALSE, scheme |-> "", token |-> ""]

Bearer(t) == [present |-> TRUE, scheme |-> "Bearer", token |-> t]

OrdersPath == <<"/", "o", "r", "d", "e", "r", "s">>

\* a mutant of the auth option: the header is set whenever there is a token
apiFetchRequest_ignoresAuth(path, method, auth, body) ==
    LET normalizedPath == IF path # <<>> /\ path[1] = "/" THEN path ELSE <<"/">> \o path
        token == getAccessToken
    IN [url |-> normalizedPath,
        method |-> method,
        authorization |-> IF HasToken(token) THEN Bearer(token.value) ELSE NoHeader,
        contentType |-> "application/json",
        body |-> body]

\* apiFetch up to the call of fetch: the request handed to the network
apiFetchRequest(path, method, auth, body) ==
    LET normalizedPath == IF path # <<>> /\ path[1] = "/" THEN path ELSE <<"/">> \o path
        token == getAccessToken
    IN [url |-> normalizedPath,
        method |-> method,
        authorization |-> IF auth /\ HasToken(token) THEN Bearer(token.value) ELSE NoHeader,
        contentType |-> "application/json",
        body |-> body]

Response(ok, status, statusText, text) ==
    [kind |-> "response", ok |-> ok, status |-> status, statusText |-> statusText, text |-> text]

\* fetch rejects: no response at all
NetworkFailure == [kind |-> "reject", ok |-> FALSE, status |-> 0, statusText |-> "", text |-> ""]

Returns(value) == [kind |-> "return", status |-> 0, body |-> value, message |-> ""]

ApiError(status, body, message) ==
    [kind |-> "ApiError", status |-> status, body |-> body, message |-> message]

OtherError == [kind |-> "TypeError", status |-> 0, body |-> JPrim(JUndefined), message |-> ""]

\* apiFetch from the settling of fetch on: what the call returns or throws
apiFetchResult(outcome) ==
    LET responseText == outcome.text
        parse == JSONParse(responseText)
    IN IF outcome.kind = "reject" THEN OtherError
       ELSE IF ~outcome.ok
            THEN ApiError(outcome.status,
                          IF responseText = "" THEN JPrim(JNull)
                          ELSE IF parse.throws THEN JPrim(JStr(responseText))
                          ELSE parse.value,
                          outcome.statusText)
            ELSE IF responseText = "" THEN Returns(JPrim(JUndefined))
                 ELSE IF parse.throws
                      THEN ApiError(outcome.status, JPrim(JStr(responseText)),
                                    "Failed to parse response JSON")
                      ELSE Returns(parse.value)

\* a component other than the checkout page calls apiFetch(path, {auth, body})
\* with a text body: the call up to the await of fetch
ApiFetch(path, auth, body) ==
    /\ Len(inFlight) < MaxInFlight
    /\ inFlight' = Append(inFlight, apiFetchRequest(path, "POST", auth, body))
    /\ UNCHANGED <<tokenEntry, storeVars, mounted, cartItems, paymentMethod, receivedAmount,
                   memo, isSubmitting, errorMessage, orderResult>>

\* the fetch of the i-th of these calls settles: the call returns or throws
\* apiFetchResult(outcome) to its caller, which keeps none of the page's state
ApiFetchSettled(i, outcome) ==
    /\ i \in 1..Len(inFlight)
    /\ apiFetchResult(outcome).kind \in {"return", "ApiError", "TypeError"}
    /\ inFlight' = SubSeq(inFlight, 1, i - 1) \o SubSeq(inFlight, i + 1, Len(inFlight))
    /\ UNCHANGED <<tokenEntry, storeVars, mounted, cartItems, paymentMethod, receivedAmount,
                   memo, isSubmitting, errorMessage, orderResult>>

NetworkOutcomes ==
    {Response(TRUE, 200, "OK", t) : t \in {TextOrder, TextEmpty, TextNotJson}}
      \cup {Response(FALSE, 422, "Unprocessable Entity", t) :
              t \in {TextEmpty, TextNotJson, TextDetail, TextDetailNull, TextNoDetail}}
      \cup {NetworkFailure}

(***************************************************************************)
(* Checkout Page (app/pos/page.tsx)                                        *)
(***************************************************************************)
\* the texts the cashier types into the received-amount field
AmountInputs == {<<"a">>, <<",">>, <<"-", "1">>, <<"1", ",", "0", "0", "0">>}

\* the texts the cashier types into the memo field
MemoInputs == {<<" ">>, <<" ", "m", " ">>}

\* useEffect of lines 102-106: read the cart and subscribe setCartItems
Mount ==
    /\ ~mounted
    /\ mounted' = TRUE
    /\ cartItems' = readCartItems(cartEntry)
    /\ receivedAmount' = AutoFill(cartItems', paymentMethod, receivedAmount)
    /\ UNCHANGED <<tokenEntry, storeVars, paymentMethod, memo,
                   isSubmitting, errorMessage, orderResult, inFlight>>

\* onChange of the payment-method select
SetPaymentMethod(m) ==
    /\ mounted
    /\ paymentMethod' = m
    /\ receivedAmount' = AutoFill(cartItems, m, receivedAmount)
    /\ UNCHANGED <<tokenEntry, storeVars, mounted, cartItems, memo,
                   isSubmitting, errorMessage, orderResult, inFlight>>

\* onChange of the received-amount input
SetReceivedAmount(t) ==
    /\ mounted
    /\ receivedAmount' = AutoFill(cartItems, paymentMethod, t)
    /\ UNCHANGED <<tokenEntry, storeVars, mounted, cartItems, paymentMethod, memo,
                   isSubmitting, errorMessage, orderResult, inFlight>>

\* onChange of the memo textarea
SetMemo(t) ==
    /\ mounted
    /\ memo' = t
    /\ UNCHANGED <<tokenEntry, storeVars, mounted, cartItems, paymentMethod, receivedAmount,
                   isSubmitting, errorMessage, orderResult, inFlight>>

\* a mutant of the shortage: the comparison with the total is left out
shortage_unguarded(parsedReceivedAmount, total) ==
    IF ~parsedReceivedAmount.some THEN 0
    ELSE roundCurrency(total - parsedReceivedAmount.cents, 100)

\* computedChange of lines 110-116, in hundredths (the page's roundCurrency is
\* the same function as the Cart Store's)
computedChange(parsedReceivedAmount, total) ==
    IF ~parsedReceivedAmount.some THEN 0
    ELSE IF parsedReceivedAmount.cents - total > 0
         THEN roundCurrency(parsedReceivedAmount.cents - total, 100)
         ELSE 0

\* shortage of lines 118-126, in hundredths
shortage(parsedReceivedAmount, total) ==
    IF ~parsedReceivedAmount.some THEN 0
    ELSE IF parsedReceivedAmount.cents >= total THEN 0
    ELSE roundCurrency(total - parsedReceivedAmount.cents, 100)

\* a mutant of the disabled attribute: a submission in progress does not disable
ButtonsEnabled_whileSubmitting == Len(cartItems) > 0

\* disabled={!cartItems.length || isSubmitting} of both buttons
ButtonsEnabled == Len(cartItems) > 0 /\ ~isSubmitting

\* a mutant of the payload: the memo is sent as typed
OrderPayload_untrimmedMemo(items, method, amountCents, memoText) ==
    [items |-> [i \in 1..Len(items) |->
                  [product_id |-> items[i].productId, quantity |-> items[i].quantity]],
     payments |-> <<[method |-> method, amount |-> toFixed2(amountCents)]>>,
     memo |-> IF memoText # <<>> THEN Str(memoText) ELSE Undefined]

\* the body of the order request: JSON.stringify(payload)
OrderPayload(items, method, amountCents, memoText) ==
    LET trimmedMemo == Trim(memoText)
    IN [items |-> [i \in 1..Len(items) |->
                     [product_id |-> items[i].productId, quantity |-> items[i].quantity]],
        payments |-> <<[method |-> method, amount |-> toFixed2(amountCents)]>>,
        memo |-> IF trimmedMemo # <<>> THEN Str(trimmedMemo) ELSE Undefined]

\* a mutant of the validations: the token is looked at before the cart
SubmitRejection_tokenFirst ==
    LET parsedReceivedAmount == parseMoney(receivedAmount)
        token == getAccessToken
    IN IF ~HasToken(token) THEN JStr(MsgNoAuth)
       ELSE IF Len(cartItems) = 0 THEN JStr(MsgCartEmpty)
       ELSE IF ~parsedReceivedAmount.some THEN JStr(MsgEnterAmount)
       ELSE IF parsedReceivedAmount.cents <= 0 THEN JStr(MsgAmountNotPositive)
       ELSE JNull

\* a mutant of the validations: an amount of zero passes
SubmitRejection_allowsZero ==
    LET parsedReceivedAmount == parseMoney(receivedAmount)
        token == getAccessToken
    IN IF Len(cartItems) = 0 THEN JStr(MsgCartEmpty)
       ELSE IF ~HasToken(token) THEN JStr(MsgNoAuth)
       ELSE IF ~parsedReceivedAmount.some THEN JStr(MsgEnterAmount)
       ELSE IF parsedReceivedAmount.cents < 0 THEN JStr(MsgAmountNotPositive)
       ELSE JNull

\* a mutant of the validations: an amount below the total is rejected
SubmitRejection_rejectsShortage ==
    LET parsedReceivedAmount == parseMoney(receivedAmount)
        token == getAccessToken
    IN IF Len(cartItems) = 0 THEN JStr(MsgCartEmpty)
       ELSE IF ~HasToken(token) THEN JStr(MsgNoAuth)
       ELSE IF ~parsedReceivedAmount.some THEN JStr(MsgEnterAmount)
       ELSE IF parsedReceivedAmount.cents <= 0 THEN JStr(MsgAmountNotPositive)
       ELSE IF shortage(parsedReceivedAmount, calculateCartTotals(cartItems).total) > 0
            THEN JStr(MsgEnterAmount)
       ELSE JNull

\* the local validations of handleSubmit: the message of the first that fails, or null
SubmitRejection ==
    LET parsedReceivedAmount == parseMoney(receivedAmount)
        token == getAccessToken
    IN IF Len(cartItems) = 0 THEN JStr(MsgCartEmpty)
       ELSE IF ~HasToken(token) THEN JStr(MsgNoAuth)
       ELSE IF ~parsedReceivedAmount.some THEN JStr(MsgEnterAmount)
       ELSE IF parsedReceivedAmount.cents <= 0 THEN JStr(MsgAmountNotPositive)
       ELSE JNull

\* a mutant of the first lines: the previous order result is kept
handleSubmit_keepsOrderResult ==
    LET parsedReceivedAmount == parseMoney(receivedAmount)
    IN /\ mounted
       /\ Len(inFlight) < MaxInFlight
       /\ orderResult' = orderResult
       /\ errorMessage' = SubmitRejection
       /\ IF SubmitRejection # JNull
          THEN UNCHANGED <<isSubmitting, inFlight>>
          ELSE /\ isSubmitting' = TRUE
               /\ inFlight' = Append(inFlight,
                                apiFetchRequest(OrdersPath, "POST", TRUE,
                                  OrderPayload(cartItems, paymentMethod,
                                               parsedReceivedAmount.cents, memo)))
       /\ UNCHANGED <<tokenEntry, storeVars, mounted, cartItems, paymentMethod,
                      receivedAmount, memo>>

\* handleSubmit up to the await of apiFetch
handleSubmit ==
    LET parsedReceivedAmount == parseMoney(receivedAmount)
    IN /\ mounted
       /\ Len(inFlight) < MaxInFlight
       /\ orderResult' = JPrim(JNull)
       /\ errorMessage' = SubmitRejection
       /\ IF SubmitRejection # JNull
          THEN UNCHANGED <<isSubmitting, inFlight>>
          ELSE /\ isSubmitting' = TRUE
               /\ inFlight' = Append(inFlight,
                                apiFetchRequest(OrdersPath, "POST", TRUE,
                                  OrderPayload(cartItems, paymentMethod,
                                               parsedReceivedAmount.cents, memo)))
       /\ UNCHANGED <<tokenEntry, storeVars, mounted, cartItems, paymentMethod,
                      receivedAmount, memo>>

\* a mutant of the catch block: a text body is not shown
CatchMessage_noBodyText(error) ==
    IF error.kind = "ApiError"
    THEN JCoalesce(error.body.detail, JStr(MsgCheckoutFailed))
    ELSE JStr(MsgUnexpected)

\* the message the catch block of handleSubmit sets for a thrown error
CatchMessage(error) ==
    IF error.kind = "ApiError"
    THEN LET detail == IF error.body.type = "string" THEN JStr(error.body.str)
                       ELSE error.body.detail
         IN JCoalesce(detail, JStr(MsgCheckoutFailed))
    ELSE JStr(MsgUnexpected)

\* a mutant of the continuation: the flag is cleared in the try block, not in finally
Settle_noFinally(i, outcome) ==
    LET result == apiFetchResult(outcome)
    IN /\ i \in 1..Len(inFlight)
       /\ inFlight' = SubSeq(inFlight, 1, i - 1) \o SubSeq(inFlight, i + 1, Len(inFlight))
       /\ IF result.kind = "return"
          THEN /\ CallsBelowCap
               /\ isSubmitting' = FALSE
               /\ orderResult' = result.body
               /\ clearCartItems
               /\ cartItems' = <<>>
               /\ receivedAmount' = AutoFill(cartItems', paymentMethod, <<>>)
               /\ memo' = <<>>
               /\ UNCHANGED errorMessage
          ELSE /\ errorMessage' = CatchMessage(result)
               /\ UNCHANGED <<cartEntry, received, calls, cartItems, receivedAmount,
                              memo, orderResult, isSubmitting>>
       /\ UNCHANGED <<tokenEntry, storageEvents, listeners, mounted, paymentMethod>>

\* a mutant of the catch block: a failed call clears the received amount too
Settle_failureClearsAmount(i, outcome) ==
    LET result == apiFetchResult(outcome)
    IN /\ i \in 1..Len(inFlight)
       /\ inFlight' = SubSeq(inFlight, 1, i - 1) \o SubSeq(inFlight, i + 1, Len(inFlight))
       /\ isSubmitting' = FALSE
       /\ IF result.kind = "return"
          THEN /\ CallsBelowCap
               /\ orderResult' = result.body
               /\ clearCartItems
               /\ cartItems' = <<>>
               /\ receivedAmount' = AutoFill(cartItems', paymentMethod, <<>>)
               /\ memo' = <<>>
               /\ UNCHANGED errorMessage
          ELSE /\ errorMessage' = CatchMessage(result)
               /\ receivedAmount' = AutoFill(cartItems, paymentMethod, <<>>)
               /\ UNCHANGED <<cartEntry, received, calls, cartItems, memo, orderResult>>
       /\ UNCHANGED <<tokenEntry, storageEvents, listeners, mounted, paymentMethod>>

\* a mutant of the success path: the cart is cleared only if it still holds
\* what the request carried
Settle_keepsChangedCart(i, outcome) ==
    LET result == apiFetchResult(outcome)
    IN /\ i \in 1..Len(inFlight)
       /\ inFlight' = SubSeq(inFlight, 1, i - 1) \o SubSeq(inFlight, i + 1, Len(inFlight))
       /\ isSubmitting' = FALSE
       /\ IF result.kind = "return"
          THEN /\ CallsBelowCap
               /\ orderResult' = result.body
               /\ IF Len(inFlight[i].body.items) = Len(cartItems)
                  THEN /\ clearCartItems
                       /\ cartItems' = <<>>
                  ELSE UNCHANGED <<cartEntry, received, calls, cartItems>>
               /\ receivedAmount' = AutoFill(cartItems', paymentMethod, <<>>)
               /\ memo' = <<>>
               /\ UNCHANGED errorMessage
          ELSE /\ errorMessage' = CatchMessage(result)
               /\ UNCHANGED <<cartEntry, received, calls, cartItems, receivedAmount,
                              memo, orderResult>>
       /\ UNCHANGED <<tokenEntry, storageEvents, listeners, mounted, paymentMethod>>

\* handleSubmit from the settling of apiFetch on, for the i-th request in flight
Settle(i, outcome) ==
    LET result == apiFetchResult(outcome)
    IN /\ i \in 1..Len(inFlight)
       /\ inFlight' = SubSeq(inFlight, 1, i - 1) \o SubSeq(inFlight, i + 1, Len(inFlight))
       /\ isSubmitting' = FALSE
       /\ IF result.kind = "return"
          THEN /\ CallsBelowCap
               /\ orderResult' = result.body
               /\ clearCartItems
               /\ cartItems' = <<>>
               /\ receivedAmount' = AutoFill(cartItems', paymentMethod, <<>>)
               /\ memo' = <<>>
               /\ UNCHANGED errorMessage
          ELSE /\ errorMessage' = CatchMessage(result)
               /\ UNCHANGED <<cartEntry, received, calls, cartItems, receivedAmount,
                              memo, orderResult>>
       /\ UNCHANGED <<tokenEntry, storageEvents, listeners, mounted, paymentMethod>>

\* handleClearCart
handleClearCart ==
    /\ mounted
    /\ CallsBelowCap
    /\ clearCartItems
    /\ cartItems' = <<>>
    /\ receivedAmount' = AutoFill(cartItems', paymentMethod, receivedAmount)
    /\ UNCHANGED <<tokenEntry, storageEvents, listeners, mounted, paymentMethod, memo,
                   isSubmitting, errorMessage, orderResult, inFlight>>

(***************************************************************************)
(* Specifications                                                          *)
(***************************************************************************)
NoCallbackState ==
    /\ listeners = {}
    /\ received = [c \in Callbacks |-> NothingReceived]
    /\ calls = [c \in Callbacks |-> 0]

PageInit ==
    /\ mounted = FALSE
    /\ cartItems = <<>>
    /\ paymentMethod = "cash"
    /\ receivedAmount = <<>>
    /\ memo = <<>>
    /\ isSubmitting = FALSE
    /\ errorMessage = JNull
    /\ orderResult = JPrim(JNull)
    /\ inFlight = <<>>

\* what the browser's storage holds when the page is opened
Init ==
    /\ tokenEntry \in {NoTokenEntry, TokenEntry("t1")}
    /\ cartEntry \in {NoEntry, StringifyItems(<<ItemA>>)}
    /\ storageEvents = <<>>
    /\ NoCallbackState
    /\ PageInit

\* what the rest of the application and the other tabs do to the two stores
Environment ==
    \/ \E t \in TokenInputs : SetAccessToken(t)
    \/ \E items \in {<<ItemA, ItemB>>} : WriteCartItems(items)
    \/ \E e \in {NoEntry, ArrayJson(<<RawBadId, RawSnake>>)} : CrossTabCart(e)
    \/ DeliverStorageEvent

\* what the cashier does to the fields of the form
Typing ==
    \/ \E m \in PaymentMethod : SetPaymentMethod(m)
    \/ \E t \in AmountInputs : SetReceivedAmount(t)
    \/ \E t \in MemoInputs : SetMemo(t)

\* the page driven through its UI: a disabled button runs no handler
Next ==
    \/ Mount
    \/ Typing
    \/ ButtonsEnabled /\ handleSubmit
    \/ ButtonsEnabled /\ handleClearCart
    \/ \E i \in 1..Len(inFlight) : \E o \in NetworkOutcomes : Settle(i, o)
    \/ Environment

Spec == Init /\ [][Next]_vars

\* the handlers called whatever the buttons' disabled state is (a caller that
\* goes around the UI); the stores change only through this page, and the
\* payment method keeps its initial value
NextHandler ==
    \/ Mount
    \/ \E t \in AmountInputs : SetReceivedAmount(t)
    \/ \E t \in MemoInputs : SetMemo(t)
    \/ handleSubmit
    \/ handleClearCart
    \/ \E i \in 1..Len(inFlight) : \E o \in NetworkOutcomes : Settle(i, o)
    \/ \E t \in TokenInputs : SetAccessToken(t)

SpecHandler == Init /\ [][NextHandler]_vars

\* the Cart Store with its subscribers: the page's setCartItems once mounted,
\* and the callbacks of other components
StoreWriteInputs == {<<ItemA, ItemB>>, <<ItemB, ItemA>>, <<ItemZ, ItemA>>, <<>>}

StoreEntryInputs == {NoEntry, EmptyText, InvalidJson, NotArrayJson,
                     ArrayJson(<<RawBadId, RawSnake, RawNonObject, RawTexts>>)}

NextStore ==
    \/ Mount
    \/ \E c \in Callbacks : SubscribeCart(c)
    \/ \E c \in Callbacks : Unsubscribe(c)
    \/ \E items \in StoreWriteInputs : WriteCartItems(items)
    \/ ClearCartItems
    \/ \E e \in StoreEntryInputs : CrossTabCart(e)
    \/ \E e \in {NoTokenEntry, TokenEntry("t1")} : CrossTabToken(e)
    \/ DeliverStorageEvent

SpecStore == Init /\ [][NextStore]_vars

\* the page showing the totals of the carts other components write
TotalsItems == {ItemA, ItemB, ItemR, ItemF}

TotalsCarts == {<<>>} \cup {<<a>> : a \in TotalsItems}
                 \cup {<<a, b>> : a \in TotalsItems, b \in TotalsItems}

NextTotals ==
    \/ Mount
    \/ \E items \in TotalsCarts : WriteCartItems(items)
    \/ \E m \in PaymentMethod : SetPaymentMethod(m)

SpecTotals == Init /\ [][NextTotals]_vars

\* the HTTP Request Wrapper called by other components while the token changes
LoginPath == <<"l", "o", "g", "i", "n">>

WrapperPaths == {OrdersPath, LoginPath}

WrapperBodies == {Str(<<"{", "}">>)}

WrapperTokens == {"", "t1", "t2"}

NextWrapper ==
    \/ \E t \in WrapperTokens : SetAccessToken(t)
    \/ ClearAccessToken
    \/ \E e \in {NoTokenEntry, TokenEntry(""), TokenEntry("t2")} : CrossTabToken(e)
    \/ DeliverStorageEvent
    \/ \E p \in WrapperPaths : \E a \in BOOLEAN : \E b \in WrapperBodies : ApiFetch(p, a, b)
    \/ \E i \in 1..Len(inFlight) : \E o \in NetworkOutcomes : ApiFetchSettled(i, o)

SpecWrapper == Init /\ [][NextWrapper]_vars

(***************************************************************************)
(* Properties                                                              *)
(***************************************************************************)
\* the order call succeeds: a success status with an empty or a JSON body
Succeeds(o) == o.kind = "response" /\ o.ok /\ (o.text = "" \/ ~JSONParse(o.text).throws)

\* C1: when the order call of a submission succeeds, the page stores the
\* returned result, the Cart Store entry is removed (readCartItems() is empty),
\* and the page's cart, received-amount text and memo text are empty, whatever
\* the payment method is.
C1_SuccessClearsCartAndInputs ==
    [][\A i \in 1..Len(inFlight) : \A o \in NetworkOutcomes :
         (Settle(i, o) /\ Succeeds(o))
           => /\ orderResult' = (IF o.text = "" THEN JPrim(JUndefined) ELSE JSONParse(o.text).value)
              /\ cartEntry' = NoEntry
              /\ readCartItems(cartEntry') = <<>>
              /\ cartItems' = <<>>
              /\ receivedAmount' = <<>>
              /\ memo' = <<>>]_vars

C1_Witness ==
    /\ orderResult.order_no = JStr("X1")
    /\ paymentMethod # "cash"
    /\ cartEntry = NoEntry
    /\ cartItems = <<>> /\ receivedAmount = <<>> /\ memo = <<>>
    /\ ~isSubmitting

\* C2: a submission made while the page's cart is empty issues no request and
\* sets the error message to "cart is empty" (and no order result), whatever
\* the token, payment method, received amount and memo are.
C2_EmptyCartRejected ==
    [][(handleSubmit /\ Len(cartItems) = 0)
         => /\ inFlight' = inFlight
            /\ errorMessage' = JStr(MsgCartEmpty)
            /\ orderResult' = JPrim(JNull)]_vars

C2_Witness ==
    /\ errorMessage = JStr(MsgCartEmpty)
    /\ cartItems = <<>>
    /\ tokenEntry.present
    /\ parseMoney(receivedAmount).some /\ parseMoney(receivedAmount).cents > 0
    /\ memo # <<>>
    /\ inFlight = <<>>

\* C3: a submission made with a non-empty cart while the Auth Token Store holds
\* no token issues no request and sets the "missing authentication" message,
\* whatever the received amount is.
C3_MissingTokenRejected ==
    [][(handleSubmit /\ Len(cartItems) > 0 /\ ~tokenEntry.present)
         => /\ inFlight' = inFlight
            /\ errorMessage' = JStr(MsgNoAuth)]_vars

C3_Witness ==
    /\ errorMessage = JStr(MsgNoAuth)
    /\ Len(cartItems) > 0
    /\ ~tokenEntry.present
    /\ parseMoney(receivedAmount).some /\ parseMoney(receivedAmount).cents > 0
    /\ inFlight = <<>>

\* the amount a text of digits and "." denotes is greater than zero
TextAmountPositive(t) == ~NumberOfText(t).nan /\ NumberOfText(t).n > 0

\* C4: with a non-empty cart and a token, a submission whose received-amount
\* text does not parse is rejected with "enter a received amount", one whose
\* amount is <= 0 with "must be greater than zero", both without a request; so
\* every request issued carries a payment amount greater than zero.
C4_AmountValidated ==
    [][/\ (handleSubmit /\ Len(cartItems) > 0 /\ HasToken(tokenEntry)
             /\ ~parseMoney(receivedAmount).some)
            => (inFlight' = inFlight /\ errorMessage' = JStr(MsgEnterAmount))
       /\ (handleSubmit /\ Len(cartItems) > 0 /\ HasToken(tokenEntry)
             /\ parseMoney(receivedAmount).some /\ parseMoney(receivedAmount).cents <= 0)
            => (inFlight' = inFlight /\ errorMessage' = JStr(MsgAmountNotPositive))
       /\ \A k \in 1..Len(inFlight') :
            TextAmountPositive(inFlight'[k].body.payments[1].amount)]_vars

C4_Witness ==
    /\ errorMessage = JStr(MsgAmountNotPositive)
    /\ receivedAmount = <<",">>
    /\ Len(cartItems) > 0
    /\ HasToken(tokenEntry)
    /\ inFlight = <<>>

\* C5: driven through the UI, at most one order request is in flight at any
\* time, and the submission-in-progress flag is set while one is.
C5_OneRequestInFlight ==
    /\ Len(inFlight) <= 1
    /\ (inFlight # <<>> => isSubmitting)

\* a request is in flight while the form holds all a second submission needs
C5_Witness ==
    /\ Len(inFlight) = 1
    /\ Len(cartItems) > 0
    /\ HasToken(tokenEntry)
    /\ parseMoney(receivedAmount).some /\ parseMoney(receivedAmount).cents > 0

\* C6: the flag is cleared whenever an order call settles, however it settles;
\* it is true only while a request is in flight; a submission sets it exactly
\* when it issues a request, so a locally rejected one leaves it clear.
C6_FlagFollowsRequest ==
    [][/\ \A i \in 1..Len(inFlight) : \A o \in NetworkOutcomes :
            Settle(i, o) => ~isSubmitting'
       /\ isSubmitting' => inFlight' # <<>>
       /\ handleSubmit => (isSubmitting' <=> inFlight' # inFlight)]_vars

C6_Witness ==
    /\ ~isSubmitting
    /\ errorMessage = JStr(MsgUnexpected)
    /\ inFlight = <<>>

\* the body text is a JSON object that has a detail field
HasDetailField(text) ==
    /\ text # "" /\ ~JSONParse(text).throws
    /\ JSONParse(text).value.type = "object"
    /\ JSONParse(text).value.detail.type # "undefined"

\* the body text is a JSON object without a detail field
ObjectWithoutDetail(text) ==
    /\ text # "" /\ ~JSONParse(text).throws
    /\ JSONParse(text).value.type = "object"
    /\ JSONParse(text).value.detail.type = "undefined"

\* C7 as stated: after a non-success status, a non-JSON text body is the
\* message; a JSON object with a detail field shows that field verbatim; a JSON
\* object without detail, or an empty body, shows "checkout failed"; a failure
\* that is not the wrapper's error shows "unexpected error occurred".
C7_Original ==
    [][\A i \in 1..Len(inFlight) : \A o \in NetworkOutcomes :
         Settle(i, o) =>
           /\ (o.kind = "response" /\ ~o.ok /\ o.text # "" /\ JSONParse(o.text).throws)
                => errorMessage' = JStr(o.text)
           /\ (o.kind = "response" /\ ~o.ok /\ HasDetailField(o.text))
                => errorMessage' = JSONParse(o.text).value.detail
           /\ (o.kind = "response" /\ ~o.ok /\ (o.text = "" \/ ObjectWithoutDetail(o.text)))
                => errorMessage' = JStr(MsgCheckoutFailed)
           /\ o.kind = "reject" => errorMessage' = JStr(MsgUnexpected)]_vars

\* C7 (amended): as C7, except that a detail field shows verbatim only when it
\* is not null; a JSON object whose detail is null shows "checkout failed", as
\* one without detail does.
C7_ErrorMessageFromBody ==
    [][\A i \in 1..Len(inFlight) : \A o \in NetworkOutcomes :
         Settle(i, o) =>
           /\ (o.kind = "response" /\ ~o.ok /\ o.text # "" /\ JSONParse(o.text).throws)
                => errorMessage' = JStr(o.text)
           /\ (o.kind = "response" /\ ~o.ok /\ HasDetailField(o.text)
                 /\ JSONParse(o.text).value.detail.type # "null")
                => errorMessage' = JSONParse(o.text).value.detail
           /\ (o.kind = "response" /\ ~o.ok /\ HasDetailField(o.text)
                 /\ JSONParse(o.text).value.detail.type = "null")
                => errorMessage' = JStr(MsgCheckoutFailed)
           /\ (o.kind = "response" /\ ~o.ok /\ (o.text = "" \/ ObjectWithoutDetail(o.text)))
                => errorMessage' = JStr(MsgCheckoutFailed)
           /\ o.kind = "reject" => errorMessage' = JStr(MsgUnexpected)]_vars

C7_Witness ==
    /\ errorMessage = JStr("insufficient stock")
    /\ ~isSubmitting
    /\ Len(cartItems) > 0

\* C8: a success-status response whose body is non-empty and not JSON is an
\* error distinct from the request error, and the page shows "unexpected error
\* occurred" for it, not the response text.
C8_ParseFailureIsUnexpected ==
    [][\A i \in 1..Len(inFlight) : \A o \in NetworkOutcomes :
         (Settle(i, o) /\ o.kind = "response" /\ o.ok
            /\ o.text # "" /\ JSONParse(o.text).throws)
           => errorMessage' = JStr(MsgUnexpected)]_vars

\* t is digits, a point and two digits
IsFixed2Text(t) ==
    /\ Len(t) >= 4
    /\ t[Len(t) - 2] = "."
    /\ \A k \in 1..Len(t) : k # Len(t) - 2 => IsDigit(t[k])

IsBlank(t) == \A k \in 1..Len(t) : t[k] = " "

\* r is t without its leading and trailing spaces
IsTrimOf(r, t) ==
    /\ r # <<>> /\ r[1] # " " /\ r[Len(r)] # " "
    /\ \E a \in 0..Len(t) :
         /\ a + Len(r) <= Len(t)
         /\ SubSeq(t, a + 1, a + Len(r)) = r
         /\ IsBlank(SubSeq(t, 1, a))
         /\ IsBlank(SubSeq(t, a + Len(r) + 1, Len(t)))

\* C9: the request a submission issues has one {product_id, quantity} pair per
\* cart item, in cart order and without a price; one payment entry with the
\* selected method and the parsed amount as text with two decimals; and a memo
\* exactly when the memo text is not blank, then equal to the trimmed memo.
C9_RequestContent ==
    [][(handleSubmit /\ inFlight' # inFlight) =>
         LET body == inFlight'[Len(inFlight')].body
         IN /\ Len(inFlight') = Len(inFlight) + 1
            /\ Len(body.items) = Len(cartItems)
            /\ \A k \in 1..Len(cartItems) :
                 body.items[k] = [product_id |-> cartItems[k].productId,
                                  quantity |-> cartItems[k].quantity]
            /\ Len(body.payments) = 1
            /\ body.payments[1].method = paymentMethod
            /\ IsFixed2Text(body.payments[1].amount)
            /\ NumberOfText(body.payments[1].amount) = Rat(parseMoney(receivedAmount).cents, 100)
            /\ (body.memo.type = "string" <=> ~IsBlank(memo))
            /\ (body.memo.type = "string" => IsTrimOf(body.memo.text, memo))
            /\ (body.memo.type # "string" => body.memo = Undefined)]_vars

C9_Witness ==
    \E k \in 1..Len(inFlight) :
      /\ Len(inFlight[k].body.items) = 2
      /\ inFlight[k].body.items[1].product_id # inFlight[k].body.items[2].product_id
      /\ inFlight[k].body.payments[1].method # "cash"
      /\ inFlight[k].body.payments[1].amount = <<"1", "0", "0", "0", ".", "0", "0">>
      /\ inFlight[k].body.memo = Str(<<"m">>)

\* every callback is invoked once with items if registered, and not at all if not
Delivered(items) ==
    /\ \A c \in Callbacks :
         IF c \in listeners
         THEN received'[c] = Got(items) /\ calls'[c] = calls[c] + 1
         ELSE received'[c] = received[c] /\ calls'[c] = calls[c]
    /\ mounted => cartItems' = items

\* C10: within one page, writeCartItems(items) invokes every registered
\* callback with exactly the written sequence (not sanitized, same order), and
\* clearCartItems() with the empty sequence, for any interleaving of the two.
C10_BroadcastToSubscribers ==
    [][/\ \A items \in StoreWriteInputs : WriteCartItems(items) => Delivered(items)
       /\ ClearCartItems => Delivered(<<>>)]_vars

C10_Witness ==
    /\ listeners = Callbacks
    /\ \A c \in Callbacks : received[c] = Got(<<ItemZ, ItemA>>)
    /\ readCartItems(cartEntry) = <<ItemA>>
    /\ mounted /\ cartItems = <<ItemZ, ItemA>>

\* the three conditions of a sanitized item (a unitPrice held by an item of
\* this model is always a finite number)
IsSanitizedItem(item) ==
    /\ item.productId % 100 = 0 /\ item.productId > 0
    /\ item.quantity > 0
    /\ item.unitPrice \in Int

AllSanitized(items) == \A k \in 1..Len(items) : IsSanitizedItem(items[k])

\* C11 as stated: every sequence a subscribeCart callback has been given, and
\* the cart the page holds, consists of sanitized items (productId a positive
\* integer, quantity > 0, unitPrice finite), whatever was written.
C11_Original ==
    /\ \A c \in Callbacks : received[c].got => AllSanitized(received[c].items)
    /\ mounted => AllSanitized(cartItems)

\* the step invokes the callbacks from a writeCartItems call whose argument
\* holds an item that is not sanitized
WritesUnsanitized ==
    \E items \in StoreWriteInputs : WriteCartItems(items) /\ ~AllSanitized(items)

\* C11 (amended): every sequence delivered to a subscribeCart callback, and so
\* the page's cart, consists of sanitized items, except when it is delivered by
\* a writeCartItems call whose argument holds an item that is not: the written
\* sequence is delivered as it is.  On the storage path the delivered sequence
\* is the sanitized reading of the entry.
C11_DeliveredAreSanitized ==
    [][/\ ~WritesUnsanitized =>
            /\ \A c \in Callbacks :
                 calls'[c] # calls[c] => AllSanitized(received'[c].items)
            /\ (mounted /\ cartItems' # cartItems) => AllSanitized(cartItems')
       /\ DeliverStorageEvent =>
            \A c \in Callbacks :
              calls'[c] # calls[c] => received'[c].items = readCartItems(cartEntry)]_vars

\* a callback and the page hold what a cross-tab change left of three records
C11_Witness ==
    /\ mounted /\ listeners # {}
    /\ \A c \in listeners :
         received[c] = Got(<<CartItem(700, <<>>, 200, 350, Undefined, Num(1000)),
                             CartItem(900, <<>>, 200, 350, Str(<<"k">>), Undefined)>>)
    /\ cartItems = readCartItems(cartEntry) /\ Len(cartItems) = 2

\* the element passes sanitization, by the values its fields coerce to
PassesWith(productId, quantity, unitPrice) ==
    /\ productId.type = "number" /\ productId.num % 100 = 0 /\ productId.num > 0
    /\ quantity.type = "number" /\ quantity.num > 0
    /\ unitPrice.type = "number"

PassesSanitization(e) ==
    /\ e.object
    /\ PassesWith(ToNumber(IF e.f["productId"].type \in {"undefined", "null"}
                           THEN e.f["product_id"] ELSE e.f["productId"]),
                  ToNumber(e.f["quantity"]),
                  ToNumber(IF e.f["unitPrice"].type \notin {"undefined", "null"} THEN e.f["unitPrice"]
                           ELSE IF e.f["unit_price"].type \notin {"undefined", "null"}
                                THEN e.f["unit_price"] ELSE e.f["price"]))

PassingIndices(elems) == {i \in 1..Len(elems) : PassesSanitization(elems[i])}

\* result is the elements at the passing indices, each sanitized, in their order
IsSanitizedSubsequence(result, elems) ==
    /\ Len(result) = Cardinality(PassingIndices(elems))
    /\ AllSanitized(result)
    /\ \E f \in [1..Len(result) -> PassingIndices(elems)] :
         /\ \A j, k \in 1..Len(result) : j < k => f[j] < f[k]
         /\ \A k \in 1..Len(result) : sanitizeCartItem(elems[f[k]]) = [some |-> TRUE, item |-> result[k]]

\* C12: whatever the cart entry holds, readCartItems() is the elements that
\* pass sanitization, sanitized and in their stored order; it is empty when the
\* entry is missing, empty, not valid JSON or not an array.
C12_ReadIsSanitizedSubsequence ==
    IF cartEntry.kind = "array"
    THEN IsSanitizedSubsequence(readCartItems(cartEntry), cartEntry.elems)
    ELSE readCartItems(cartEntry) = <<>>

\* the page has read an entry of four elements of which the second and the
\* fourth pass
C12_Witness ==
    /\ cartEntry = ArrayJson(<<RawBadId, RawSnake, RawNonObject, RawTexts>>)
    /\ mounted /\ storageEvents = <<>>
    /\ cartItems = <<CartItem(700, <<>>, 200, 350, Undefined, Num(1000)),
                     CartItem(900, <<>>, 200, 350, Str(<<"k">>), Undefined)>>

ChangeShortageAsClaimed(parsed, total, change, short) ==
    /\ change >= 0 /\ short >= 0
    /\ ~(change > 0 /\ short > 0)
    /\ ~parsed.some => (change = 0 /\ short = 0)
    /\ (parsed.some /\ parsed.cents < total) => (short = total - parsed.cents /\ change = 0)
    /\ (parsed.some /\ parsed.cents >= total) => (change = parsed.cents - total /\ short = 0)

ChangeShortageOf(parsed, total) ==
    ChangeShortageAsClaimed(parsed, total, computedChange(parsed, total), shortage(parsed, total))

\* C14: in every page state the computed change and shortage are both >= 0 and
\* never both > 0: both 0 when the received amount does not parse; shortage =
\* total - received and change 0 when it is below the total; change =
\* received - total and shortage 0 when it is at or above the total.
C14_ChangeAndShortage ==
    ChangeShortageOf(parseMoney(receivedAmount), calculateCartTotals(cartItems).total)

\* total 1100.00 and received 1000.00: shortage 100.00, no change
C14_Witness ==
    /\ calculateCartTotals(cartItems).total = 110000
    /\ parseMoney(receivedAmount) = Amount(100000)
    /\ shortage(parseMoney(receivedAmount), 110000) = 10000
    /\ computedChange(parseMoney(receivedAmount), 110000) = 0

\* the line subtotal and the line tax of the claim, in hundredths
ClaimLineSubtotal(item) == RoundHundredths(item.unitPrice * item.quantity, 10000)

ClaimLineTax(item) ==
    RoundHundredths(ClaimLineSubtotal(item)
                      * (IF item.taxRate.type = "number" THEN item.taxRate.num ELSE 0),
                    1000000)

RECURSIVE SumSubtotals(_)
SumSubtotals(items) ==
    IF items = <<>> THEN 0 ELSE ClaimLineSubtotal(Head(items)) + SumSubtotals(Tail(items))

RECURSIVE SumTaxes(_)
SumTaxes(items) ==
    IF items = <<>> THEN 0 ELSE ClaimLineTax(Head(items)) + SumTaxes(Tail(items))

TotalsAsClaimed(t, sumSubtotals, sumTaxes) ==
    /\ t.subtotal = sumSubtotals
    /\ t.tax = sumTaxes
    /\ t.total = sumSubtotals + sumTaxes
    /\ t.total = t.subtotal + t.tax

\* C15: for the cart the page holds, calculateCartTotals gives subtotal = the
\* sum of the lines' rounded subtotals, tax = the sum of the lines' rounded
\* taxes (no taxRate: 0), total = the sum of both, so total = subtotal + tax;
\* the empty cart gives zeros.
C15_TotalsAreSumsOfRoundedLines ==
    /\ TotalsAsClaimed(calculateCartTotals(cartItems), SumSubtotals(cartItems), SumTaxes(cartItems))
    /\ cartItems = <<>> => calculateCartTotals(cartItems) = [subtotal |-> 0, tax |-> 0, total |-> 0]

\* two lines of 0.084 each: 0.16 and tax 0.02, where rounding the sums only
\* would give 0.17 and 0.01
C15_Witness ==
    /\ mounted
    /\ cartItems = <<ItemR, ItemR>>
    /\ calculateCartTotals(cartItems) = [subtotal |-> 16, tax |-> 2, total |-> 18]

\* the step is a keystroke in the received-amount field
TypesAmount == \E t \in AmountInputs : SetReceivedAmount(t)

\* the step is the success path of a submission
SettlesWithSuccess ==
    \E i \in 1..Len(inFlight) : \E o \in NetworkOutcomes : Settle(i, o) /\ Succeeds(o)

\* C16: a change of the payment method away from "cash" while the cart is not
\* empty and the received-amount text is empty sets the text to the total with
\* two decimals; the auto-fill changes no text that is not empty, and does
\* nothing while the method is "cash" or the cart is empty: the text is then
\* what the handler of the step left (typed, cleared by a success, or as before).
C16_AutoFill ==
    [][/\ \A m \in PaymentMethod :
            (SetPaymentMethod(m) /\ paymentMethod = "cash" /\ m # "cash"
               /\ Len(cartItems) > 0 /\ receivedAmount = <<>>)
              => /\ IsFixed2Text(receivedAmount')
                 /\ NumberOfText(receivedAmount') = Rat(calculateCartTotals(cartItems).total, 100)
       /\ \A t \in AmountInputs : SetReceivedAmount(t) => receivedAmount' = t
       /\ SettlesWithSuccess => receivedAmount' = <<>>
       /\ (~TypesAmount /\ ~SettlesWithSuccess
             /\ (receivedAmount # <<>> \/ paymentMethod' = "cash" \/ cartItems' = <<>>))
            => receivedAmount' = receivedAmount]_vars

C16_Witness ==
    /\ paymentMethod = "qr"
    /\ cartItems = <<ItemA>>
    /\ receivedAmount = <<"1", "1", "0", "0", ".", "0", "0">>
    /\ inFlight = <<>>

\* what a failed submission leaves alone
FailureFrame ==
    UNCHANGED <<cartEntry, storageEvents, listeners, received, calls,
                cartItems, receivedAmount, memo, paymentMethod>>

\* C17: a submission rejected by a local validation, and an order call that
\* fails, leave the Cart Store, the page's cart, the received-amount text, the
\* memo text and the payment method as they were.
C17_FailureLeavesFormAlone ==
    [][/\ (handleSubmit /\ inFlight' = inFlight) => FailureFrame
       /\ \A i \in 1..Len(inFlight) : \A o \in NetworkOutcomes :
            (Settle(i, o) /\ ~Succeeds(o)) => FailureFrame]_vars

C17_Witness ==
    /\ errorMessage = JStr(TextNotJson)
    /\ ~isSubmitting /\ inFlight = <<>>
    /\ cartItems = <<ItemA, ItemB>> /\ readCartItems(cartEntry) = cartItems
    /\ receivedAmount = <<"1", ",", "0", "0", "0">>
    /\ memo = <<" ", "m", " ">>
    /\ paymentMethod = "card"

\* C18: driven through the UI, the error message and the order result are
\* never both set: a submission clears the result and sets the message or
\* none, and a settled call that sets the result leaves no message.
C18_ErrorOrResult ==
    [][/\ errorMessage' # JNull => orderResult' = JPrim(JNull)
       /\ handleSubmit => orderResult' = JPrim(JNull)
       /\ \A i \in 1..Len(inFlight) : \A o \in NetworkOutcomes :
            (Settle(i, o) /\ orderResult' # orderResult) => errorMessage' = JNull]_vars

\* a result is shown, without a message, while the cart has been filled again
C18_Witness ==
    /\ orderResult.order_no = JStr("X1")
    /\ errorMessage = JNull
    /\ Len(cartItems) = 2

\* the items of a request body for a cart
CartAsSubmitted(items) ==
    [k \in 1..Len(items) |-> [product_id |-> items[k].productId, quantity |-> items[k].quantity]]

\* C19: a change of the cart by this page's writeCartItems or by another tab
\* while a request is in flight leaves the request as it was sent; when the
\* call then succeeds, the Cart Store and the page's cart are cleared although
\* the cart no longer is what the request carried.
C19_CartChangedDuringFlight ==
    [][/\ (\/ \E items \in {<<ItemA, ItemB>>} : WriteCartItems(items)
           \/ \E e \in {NoEntry, ArrayJson(<<RawBadId, RawSnake>>)} : CrossTabCart(e)
           \/ DeliverStorageEvent) => inFlight' = inFlight
       /\ \A i \in 1..Len(inFlight) : \A o \in NetworkOutcomes :
            (Settle(i, o) /\ Succeeds(o) /\ inFlight[i].body.items # CartAsSubmitted(cartItems))
              => /\ cartEntry' = NoEntry
                 /\ readCartItems(cartEntry') = <<>>
                 /\ cartItems' = <<>>]_vars

\* the request carries one item while the store and the page hold two
C19_Witness ==
    /\ Len(inFlight) = 1 /\ isSubmitting
    /\ inFlight[1].body.items = CartAsSubmitted(<<ItemA>>)
    /\ cartItems = <<ItemA, ItemB>>
    /\ readCartItems(cartEntry) = <<ItemA, ItemB>>

NoCartEventPending == \A k \in 1..Len(storageEvents) : storageEvents[k] # CART_STORAGE_KEY

\* C20: once mounted, whenever no storage event of the cart entry is waiting to
\* be dispatched, the cart the page holds is readCartItems().
C20_PageCartIsStoreCart ==
    (mounted /\ NoCartEventPending) => cartItems = readCartItems(cartEntry)

\* after a cross-tab change has been dispatched the page holds its sanitized reading
C20_Witness ==
    /\ mounted /\ storageEvents = <<>>
    /\ cartEntry = ArrayJson(<<RawBadId, RawSnake>>)
    /\ cartItems = <<CartItem(700, <<>>, 200, 350, Undefined, Num(1000))>>
    /\ orderResult.order_no = JStr("X1")

\* C21: a submission made with a non-empty cart, a token and a received amount
\* that parses to more than zero issues the order request and sets no message,
\* also when the amount is below the total: the shortage is only displayed.
C21_ShortageDoesNotBlock ==
    [][(handleSubmit /\ Len(cartItems) > 0
          /\ tokenEntry.present /\ tokenEntry.value # ""
          /\ parseMoney(receivedAmount).some /\ parseMoney(receivedAmount).cents > 0)
         => /\ Len(inFlight') = Len(inFlight) + 1
            /\ inFlight'[Len(inFlight')].url = OrdersPath
            /\ errorMessage' = JNull
            /\ isSubmitting']_vars

\* a request paying 1000.00 is in flight for a cart whose total is 1100.00
C21_Witness ==
    /\ Len(inFlight) = 1
    /\ inFlight[1].body.payments[1].amount = <<"1", "0", "0", "0", ".", "0", "0">>
    /\ inFlight[1].body.items = <<[product_id |-> 100, quantity |-> 200]>>
    /\ cartItems = <<ItemA>>
    /\ shortage(parseMoney(receivedAmount), calculateCartTotals(cartItems).total) = 10000

====
